---- MODULE Spec2Model ----
(***************************************************************************)
(* Model of the synthetic e-commerce data pipeline:                        *)
(*   generate_ecommerce_data.py  (a script: customers, products, orders    *)
(*                                with line items, reviews; five CSV files)*)
(*   create_database.py          (main: drop/create five tables, import    *)
(*                                each CSV file that exists)               *)
(*                                                                         *)
(* Dates are day numbers.  Money is counted in tenths of a cent, so that   *)
(* round(x, 2) is a real operation: 1 cent = 10 units.                     *)
(*                                                                         *)
(* Fabricated text and the fields no later step reads back (name, email,   *)
(* location, product_name, category, stock_quantity, status, rating,       *)
(* comment) are left out of the records.                                   *)
(***************************************************************************)
EXTENDS Integers, Sequences, FiniteSets, TLC

\* ------------------------------------------------------------------ bounds

\* A run's configuration has NUM_CUSTOMERS + NUM_PRODUCTS + NUM_ORDERS <= MaxSize,
\* with at least one customer and one order; NUM_PRODUCTS may be 0.
MaxSize == 4
\* Draws from the unit interval are the multiples of 1/RandomGrain.
RandomGrain == 1
\* Integer draws from a..b are the DrawsPerEnd smallest and largest values.
DrawsPerEnd == 1
\* The day the run starts on (datetime.now()).
RunDay == 800
\* Configuration of generate_ecommerce_data.py, scaled down: the script sets
\* MAX_ORDER_ITEMS = 5 (line 21) and loops range(20) for standalone reviews
\* (line 183).
MAX_ORDER_ITEMS == 2
NUM_STANDALONE == 2
\* create_database.py is run at most MaxMainRuns times over the files of a run.
MaxMainRuns == 3

\* --------------------------------------------------------------- constants

MIN_ORDER_ITEMS == 1
REVIEW_DAYS == 30
ORDER_WINDOW_DAYS == 540
JOIN_WINDOW_DAYS == 730
MAX_REVIEWS_PER_ORDER == 2
REVIEW_PROBABILITY_PCT == 30
CENT == 10

VARIABLES
    NUM_CUSTOMERS,  \* configuration, lines 17-19
    NUM_PRODUCTS,
    NUM_ORDERS,
    run,            \* the state of one run of generate_ecommerce_data.py
    reruns,         \* further runs of the script with the same seed (same draws)
    tables,         \* ecommerce.db: table name -> rows, for the tables that exist
    success_count,  \* create_database.main: imports that succeeded in the last run
    main_runs       \* history: how many times create_database.py has been run

vars ==
    <<NUM_CUSTOMERS, NUM_PRODUCTS, NUM_ORDERS, run, reruns, tables, success_count,
      main_runs>>

\* ----------------------------------------------------------------- helpers

min(a, b) == IF a <= b THEN a ELSE b

\* Python's range(a, b) as a list.
range(a, b) == [j \in 1..(IF b > a THEN b - a ELSE 0) |-> a + j - 1]

\* random.randint(a, b): the values the model draws from a..b (none when a > b,
\* where Python raises ValueError).
randint(a, b) == {x \in a..b : x < a + DrawsPerEnd \/ x > b - DrawsPerEnd}

\* random.random() and the fraction behind Faker's date draws: the seeded part
\* of a draw, the same in every run with the same seed.
UnitDraws == 0..RandomGrain

\* random.uniform(a, b): two raw values of [a, b] that lie off the cent grid.
uniform(a, b) == {x \in {a + 4, b - 4} : a <= x /\ x <= b}

\* round(x, 2) on money in tenths of a cent: to the nearest cent, ties to even.
round2(x) ==
    LET r == x % CENT
        down == x - r
    IN  IF 2 * r < CENT THEN down
        ELSE IF 2 * r > CENT THEN down + CENT
        ELSE IF (down \div CENT) % 2 = 0 THEN down ELSE down + CENT

\* Faker.date_between(start_date, end_date): a date of [start, end], placed by
\* the seeded fraction u / RandomGrain.
date_between(start, end, u) == start + (u * (end - start)) \div RandomGrain

\* random.sample(population, k) for a population of n: the ordered choices of
\* k distinct positions.
Samples(n, k) ==
    {s \in [1..k -> 1..n] : \A a, b \in 1..k : a # b => s[a] # s[b]}

RECURSIVE SumSeq(_)
SumSeq(s) == IF s = <<>> THEN 0 ELSE Head(s) + SumSeq(Tail(s))

\* ------------------------------------------------------------- the script

\* The script's state as it starts on day `today`: empty lists, nothing written.
InitRun(today) ==
    [ pc            |-> "customers",
      error         |-> "",
      today         |-> today,
      customers     |-> <<>>,
      products      |-> <<>>,
      orders        |-> <<>>,
      order_items   |-> <<>>,
      order_item_id |-> 1,
      num_items     |-> 0,
      reviews       |-> <<>>,
      review_id     |-> 1,
      order_id      |-> 1,
      files         |-> <<>>,
      \* history, not script state: per standalone iteration whether it appended
      \* a review; per review the order it was generated from (0: standalone);
      \* the orders selected for review
      standalone    |-> <<>>,
      linked_from   |-> <<>>,
      selected      |-> <<>> ]

\* An uncaught exception ends the script where it stands.
Raise(s, exc) == [s EXCEPT !.pc = "failed", !.error = exc]

\* The script states at hand: the run's and the reruns'.
Runs == {run} \cup {reruns[j] : j \in DOMAIN reruns}

\* One step of the script (step: state -> next state), taken by the run and,
\* with the same draws, by every rerun.
Advance(step) ==
    /\ run' = step[run]
    /\ reruns' = [j \in DOMAIN reruns |-> step[reruns[j]]]
    /\ UNCHANGED <<NUM_CUSTOMERS, NUM_PRODUCTS, NUM_ORDERS, tables, success_count,
                   main_runs>>

\* df.to_csv(name): the file is written, or the write raises OSError.
to_csv(s, name, rows, ok, next) ==
    IF ok
    THEN [s EXCEPT !.files = (name :> rows) @@ s.files, !.pc = next]
    ELSE Raise(s, "OSError")

\* Lines 37-45: one iteration of the customers loop.
CustomerStep(s, u) ==
    LET i == Len(s.customers) + 1
        join_date == date_between(s.today - JOIN_WINDOW_DAYS, s.today, u)
        customers == Append(s.customers, [customer_id |-> i, join_date |-> join_date])
    IN  [s EXCEPT !.customers = customers]

GenerateCustomer ==
    /\ run.pc = "customers"
    /\ Len(run.customers) < NUM_CUSTOMERS
    /\ \E u \in UnitDraws : Advance([s \in Runs |-> CustomerStep(s, u)])

\* Lines 47-48.
WriteCustomers ==
    /\ run.pc = "customers"
    /\ Len(run.customers) = NUM_CUSTOMERS
    /\ \E ok \in BOOLEAN :
         Advance([s \in Runs |-> to_csv(s, "customers.csv", s.customers, ok, "products")])

\* The price kept as drawn, without round(..., 2).
ProductPriceUnrounded(raw) == raw

\* Line 72: the price of a product, rounded to cents.
ProductPrice(raw) == round2(raw)

\* Lines 54-74: one iteration of the products loop.

ProductStep(s, raw) ==
    LET i == Len(s.products) + 1
        products == Append(s.products, [product_id |-> i, price |-> ProductPrice(raw)])
    IN  [s EXCEPT !.products = products]

GenerateProduct ==
    /\ run.pc = "products"
    /\ Len(run.products) < NUM_PRODUCTS
    /\ \E raw \in uniform(999 * CENT, 99999 * CENT) :
         Advance([s \in Runs |-> ProductStep(s, raw)])

\* Lines 76-77.
WriteProducts ==
    /\ run.pc = "products"
    /\ Len(run.products) = NUM_PRODUCTS
    /\ \E ok \in BOOLEAN :
         Advance([s \in Runs |-> to_csv(s, "products.csv", s.products, ok, "orders")])

\* Lines 87-88: the order window ends today and starts 540 days earlier.
start_date(s) == s.today - ORDER_WINDOW_DAYS
end_date(s) == s.today

\* Line 92.
OrderDate(s, u) == date_between(start_date(s), end_date(s), u)

\* The sample size without the cap.
SampleSizeUncapped(num_items) == num_items

\* Line 99: the sample size, capped at the number of products.
SampleSize(num_items) == min(num_items, NUM_PRODUCTS)

\* The line-item count drawn from 0 upwards.
NumItemsDrawsFromZero == randint(0, MAX_ORDER_ITEMS)

\* Line 96.
NumItemsDraws == randint(MIN_ORDER_ITEMS, MAX_ORDER_ITEMS)

\* The quantity drawn from 0 upwards.
QuantityDrawsFromZero == randint(0, 5)

\* Line 102.
QuantityDraws == randint(1, 5)

\* The price read from the first row of products_df, whatever the product.
PriceOfFirstRow(s, product_id) == s.products[1].price

\* Lines 103-104: products_df[products_df['product_id'] == product_id].iloc[0]['price'].
PriceOf(s, product_id) ==
    SelectSeq(s.products, LAMBDA p : p.product_id = product_id)[1].price

\* Line 105.
ItemTotal(price, quantity) == price * quantity

\* The line-item id counted from 1 within each order.
OrderItemIdPerOrder(s, j) == j

\* Lines 109 and 115: the id of the j-th line item of the order under way.
OrderItemId(s, j) == s.order_item_id + j - 1

\* Lines 90-123: one iteration of the orders loop, the sample (pick: positions
\* in range(1, NUM_PRODUCTS + 1)) and the quantities drawn.
OrderStep(s, customer_id, u, num_items, pick, quantities) ==
    LET i == Len(s.orders) + 1
        population == range(1, NUM_PRODUCTS + 1)
        selected_products == [j \in 1..Len(pick) |-> population[pick[j]]]
        item_totals ==
            [j \in 1..Len(pick) |->
                ItemTotal(PriceOf(s, selected_products[j]), quantities[j])]
        order_total == SumSeq(item_totals)
        items ==
            [j \in 1..Len(pick) |->
                [ order_item_id |-> OrderItemId(s, j),
                  order_id      |-> i,
                  product_id    |-> selected_products[j],
                  quantity      |-> quantities[j],
                  price         |-> round2(PriceOf(s, selected_products[j])) ]]
        order ==
            [ order_id     |-> i,
              customer_id  |-> customer_id,
              order_date   |-> OrderDate(s, u),
              total_amount |-> round2(order_total) ]
    IN  [s EXCEPT !.num_items = num_items,
                  !.order_items = s.order_items \o items,
                  !.order_item_id = s.order_item_id + Len(pick),
                  !.orders = Append(s.orders, order)]

\* random.sample raises ValueError when asked for more than the population holds.
GenerateOrder ==
    /\ run.pc = "orders"
    /\ Len(run.orders) < NUM_ORDERS
    /\ \E customer_id \in randint(1, NUM_CUSTOMERS), u \in UnitDraws,
          num_items \in NumItemsDraws :
         LET k == SampleSize(num_items)
         IN  IF k > NUM_PRODUCTS
             THEN Advance([s \in Runs |-> Raise([s EXCEPT !.num_items = num_items], "ValueError")])
             ELSE \E pick \in Samples(NUM_PRODUCTS, k), quantities \in [1..k -> QuantityDraws] :
                    Advance([s \in Runs |->
                        OrderStep(s, customer_id, u, num_items, pick, quantities)])

\* Lines 125-126.
WriteOrders ==
    /\ run.pc = "orders"
    /\ Len(run.orders) = NUM_ORDERS
    /\ \E ok \in BOOLEAN :
         Advance([s \in Runs |-> to_csv(s, "orders.csv", s.orders, ok, "order_items")])

\* Lines 129-130.
WriteOrderItems ==
    /\ run.pc = "order_items"
    /\ \E ok \in BOOLEAN :
         Advance([s \in Runs |-> to_csv(s, "order_items.csv", s.order_items, ok, "reviews")])

\* Line 140: random.random() < REVIEW_PROBABILITY, for the draw x / RandomGrain.
Selected(x) == 100 * x < REVIEW_PROBABILITY_PCT * RandomGrain

\* Line 147: order_items_df[order_items_df['order_id'] == order_id].
ItemsOf(s, order_id) == SelectSeq(s.order_items, LAMBDA it : it.order_id = order_id)

\* Line 142: orders_df[orders_df['order_id'] == order_id].iloc[0].
OrderOf(s, order_id) == SelectSeq(s.orders, LAMBDA o : o.order_id = order_id)[1]

\* The reviewer read from the wrong column of the order.
ReviewerFromOrderId(order) == order.order_id

\* Line 143: the reviewer of an order-linked review.
Reviewer(order) == order.customer_id

\* The review window laid before the order date instead of after it.
LinkedReviewDateBefore(order_date, u) ==
    date_between(order_date - REVIEW_DAYS, order_date, u)

\* Lines 155-158.
LinkedReviewDate(order_date, u) ==
    date_between(order_date, order_date + REVIEW_DAYS, u)

\* Lines 180 and 209: the counter after a review has been appended.
NextReviewId(review_id) == review_id + 1

\* Line 139-140 with the order not selected: the loop moves on.
AfterOrder(s) == [s EXCEPT !.order_id = s.order_id + 1]

\* Lines 141-180: the reviews of a selected order; pick holds the sampled
\* positions in items['product_id'].tolist(), us the date draws.
LinkedReviewStep(s, pick, us) ==
    LET order == OrderOf(s, s.order_id)
        customer_id == Reviewer(order)
        order_date == order.order_date
        items == ItemsOf(s, s.order_id)
        reviewed_products == [j \in 1..Len(pick) |-> items[pick[j]].product_id]
        new ==
            [j \in 1..Len(pick) |->
                [ review_id   |-> s.review_id + j - 1,
                  product_id  |-> reviewed_products[j],
                  customer_id |-> customer_id,
                  review_date |-> LinkedReviewDate(order_date, us[j]) ]]
    IN  AfterOrder([s EXCEPT !.reviews = s.reviews \o new,
                             !.review_id = s.review_id + Len(pick),
                             !.linked_from = s.linked_from \o [j \in 1..Len(pick) |-> s.order_id],
                             !.selected = Append(s.selected, s.order_id)])

\* Line 150: the upper end of the number of reviews of an order.
MaxReviews(items) == min(MAX_REVIEWS_PER_ORDER, Len(items))

\* Lines 139-180: one iteration of the order-linked review loop.  With no line
\* item at all order_items_df has no order_id column and line 147 raises
\* KeyError; randint raises ValueError on an empty range (line 150).
ReviewOrder ==
    /\ run.pc = "reviews"
    /\ run.order_id <= NUM_ORDERS
    /\ \E x \in UnitDraws :
         IF ~Selected(x)
         THEN Advance([s \in Runs |-> AfterOrder(s)])
         ELSE LET items == ItemsOf(run, run.order_id)
              IN  IF run.order_items = <<>>
                  THEN Advance([s \in Runs |-> Raise(s, "KeyError")])
                  ELSE IF randint(1, MaxReviews(items)) = {}
                  THEN Advance([s \in Runs |-> Raise(s, "ValueError")])
                  ELSE \E num_reviews \in randint(1, MaxReviews(items)) :
                         \E pick \in Samples(Len(items), num_reviews),
                            us \in [1..num_reviews -> UnitDraws] :
                           Advance([s \in Runs |-> LinkedReviewStep(s, pick, us)])

\* Line 188: the reviews already made of this product by this customer.
existing(s, product_id, customer_id) ==
    SelectSeq(s.reviews,
              LAMBDA r : r.product_id = product_id /\ r.customer_id = customer_id)

\* Lines 183-209: one iteration of the standalone review loop.
StandaloneStep(s, product_id, customer_id, u) ==
    LET added == existing(s, product_id, customer_id) = <<>>
        review ==
            [ review_id   |-> s.review_id,
              product_id  |-> product_id,
              customer_id |-> customer_id,
              review_date |-> date_between(start_date(s), end_date(s), u) ]
        t == [s EXCEPT !.standalone = Append(s.standalone, added)]
    IN  IF added
        THEN [t EXCEPT !.reviews = Append(s.reviews, review),
                       !.review_id = NextReviewId(s.review_id),
                       !.linked_from = Append(s.linked_from, 0)]
        ELSE t

\* randint raises ValueError on an empty range (lines 184-185).
StandaloneReview ==
    /\ run.pc = "reviews"
    /\ run.order_id > NUM_ORDERS
    /\ Len(run.standalone) < NUM_STANDALONE
    /\ IF randint(1, NUM_PRODUCTS) = {} \/ randint(1, NUM_CUSTOMERS) = {}
       THEN Advance([s \in Runs |-> Raise(s, "ValueError")])
       ELSE \E product_id \in randint(1, NUM_PRODUCTS),
               customer_id \in randint(1, NUM_CUSTOMERS), u \in UnitDraws :
              Advance([s \in Runs |-> StandaloneStep(s, product_id, customer_id, u)])

\* Lines 211-212.
WriteReviews ==
    /\ run.pc = "reviews"
    /\ run.order_id > NUM_ORDERS
    /\ Len(run.standalone) = NUM_STANDALONE
    /\ \E ok \in BOOLEAN :
         Advance([s \in Runs |-> to_csv(s, "reviews.csv", s.reviews, ok, "done")])

\* ---------------------------------------------------------- create_database

\* create_database.py lines 15-21, in the order main walks it.
CSV_FILES ==
    << <<"customers", "customers.csv">>, <<"products", "products.csv">>,
       <<"orders", "orders.csv">>, <<"order_items", "order_items.csv">>,
       <<"reviews", "reviews.csv">> >>

TABLES == {CSV_FILES[j][1] : j \in DOMAIN CSV_FILES}

\* The tables created only where missing, none dropped.
create_tables_if_missing(db) ==
    [t \in TABLES |-> IF t \in DOMAIN db THEN db[t] ELSE <<>>]

\* Lines 38-112: every table dropped and created again, empty.
create_tables(db) == [t \in TABLES |-> <<>>]

\* Lines 121-157: False when the file is missing (line 125) and when it holds
\* no record (a frame with no rows is written without a header line, and
\* read_csv raises EmptyDataError, line 146); otherwise the rows read are
\* appended to the table and committed.
import_ok(files, csv_file) == csv_file \in DOMAIN files /\ files[csv_file] # <<>>

\* An import that leaves the table as it was.
import_nothing(db, files, table_name, csv_file) == db

import_csv_to_table(db, files, table_name, csv_file) ==
    IF import_ok(files, csv_file)
    THEN [db EXCEPT ![table_name] = db[table_name] \o files[csv_file]]
    ELSE db

\* Lines 242-245: the import loop over the first n entries of CSV_FILES.
RECURSIVE ImportAll(_, _, _)
ImportAll(db, files, n) ==
    IF n = 0 THEN db
    ELSE import_csv_to_table(ImportAll(db, files, n - 1), files,
                             CSV_FILES[n][1], CSV_FILES[n][2])

\* Lines 216-266: one run of main, once the generator has ended.
main ==
    /\ run.pc \in {"done", "failed"}
    /\ main_runs < MaxMainRuns
    /\ main_runs' = main_runs + 1
    /\ tables' = ImportAll(create_tables(tables), run.files, Len(CSV_FILES))
    /\ success_count' =
         Cardinality({j \in DOMAIN CSV_FILES : import_ok(run.files, CSV_FILES[j][2])})
    /\ UNCHANGED <<NUM_CUSTOMERS, NUM_PRODUCTS, NUM_ORDERS, run, reruns>>

\* ------------------------------------------------------------ specification

Configs ==
    {c \in (1..MaxSize) \X (0..MaxSize) \X (1..MaxSize) : c[1] + c[2] + c[3] <= MaxSize}

InitConfig ==
    /\ \E c \in Configs :
         /\ NUM_CUSTOMERS = c[1]
         /\ NUM_PRODUCTS = c[2]
         /\ NUM_ORDERS = c[3]
    /\ tables = <<>>
    /\ success_count = 0
    /\ main_runs = 0

Init ==
    /\ InitConfig
    /\ run = InitRun(RunDay)
    /\ reruns = <<>>

\* The script, a step at a time.
Generate ==
    \/ GenerateCustomer
    \/ WriteCustomers
    \/ GenerateProduct
    \/ WriteProducts
    \/ GenerateOrder
    \/ WriteOrders
    \/ WriteOrderItems
    \/ ReviewOrder
    \/ StandaloneReview
    \/ WriteReviews

Next ==
    \/ Generate
    \/ main

Spec == Init /\ [][Next]_vars

\* The script run a second time with the same seed, on the same day or the next.
InitRerun ==
    /\ InitConfig
    /\ run = InitRun(RunDay)
    /\ \E day \in {RunDay, RunDay + 1} : reruns = <<InitRun(day)>>

SpecRerun == InitRerun /\ [][Next]_vars

\* ------------------------------------------------------------------ claims

Abs(x) == IF x < 0 THEN -x ELSE x

\* The orders loop has run to its end.
OrdersGenerated == Len(run.orders) = NUM_ORDERS

\* sum(quantity x price) over the line items whose order_id is order_id.
LineItemSum(order_id) ==
    LET its == ItemsOf(run, order_id)
    IN  SumSeq([m \in DOMAIN its |-> its[m].quantity * its[m].price])

\* C1: after the orders loop, every order's total_amount is within one cent of
\* the rounded sum of quantity x price over exactly its own line items.
C1_OrderTotalMatchesItems ==
    OrdersGenerated =>
        \A j \in DOMAIN run.orders :
            Abs(run.orders[j].total_amount - round2(LineItemSum(run.orders[j].order_id)))
                <= CENT

\* An order with two line items, one of quantity 5, beside another order.
C1_Witness ==
    /\ OrdersGenerated
    /\ \E j \in DOMAIN run.orders :
         /\ Len(ItemsOf(run, j)) = 2
         /\ \E m \in 1..2 : ItemsOf(run, j)[m].quantity = 5
         /\ run.orders[j].total_amount > 0

\* C2: no two distinct reviews share the same product id and customer id.
C2_UniqueReviewPairs ==
    \A a, b \in DOMAIN run.reviews :
        a # b =>
            \/ run.reviews[a].product_id # run.reviews[b].product_id
            \/ run.reviews[a].customer_id # run.reviews[b].customer_id

\* C3: a rerun with the same seed and the same counts writes the same five
\* files, whatever day it runs on.
C3_SameSeedSameDataset ==
    \A j \in DOMAIN reruns :
        (run.pc = "done" /\ reruns[j].pc = "done") => reruns[j].files = run.files

\* The rows of an output file.
Rows(name) == run.files[name]

\* C4 as claimed: with at least MAX_ORDER_ITEMS products, a finished run has
\* written exactly N customers, M products and K orders, between K and
\* K x MAX_ORDER_ITEMS line items, and between NUM_STANDALONE and
\* 2K + NUM_STANDALONE reviews.
C4_RowCountsAsClaimed ==
    (run.pc = "done" /\ NUM_PRODUCTS >= MAX_ORDER_ITEMS) =>
        /\ Len(Rows("customers.csv")) = NUM_CUSTOMERS
        /\ Len(Rows("products.csv")) = NUM_PRODUCTS
        /\ Len(Rows("orders.csv")) = NUM_ORDERS
        /\ Len(Rows("order_items.csv")) >= NUM_ORDERS * MIN_ORDER_ITEMS
        /\ Len(Rows("order_items.csv")) <= NUM_ORDERS * MAX_ORDER_ITEMS
        /\ Len(Rows("reviews.csv")) >= NUM_STANDALONE
        /\ Len(Rows("reviews.csv")) <= MAX_REVIEWS_PER_ORDER * NUM_ORDERS + NUM_STANDALONE

\* C4, amended: the same, but the review count is only at least 1: it is the
\* order-linked reviews plus the standalone draws that were not skipped.
C4_RowCounts ==
    (run.pc = "done" /\ NUM_PRODUCTS >= MAX_ORDER_ITEMS) =>
        /\ Len(Rows("customers.csv")) = NUM_CUSTOMERS
        /\ Len(Rows("products.csv")) = NUM_PRODUCTS
        /\ Len(Rows("orders.csv")) = NUM_ORDERS
        /\ Len(Rows("order_items.csv")) >= NUM_ORDERS * MIN_ORDER_ITEMS
        /\ Len(Rows("order_items.csv")) <= NUM_ORDERS * MAX_ORDER_ITEMS
        /\ Len(Rows("reviews.csv")) >= 1
        /\ Len(Rows("reviews.csv")) <= MAX_REVIEWS_PER_ORDER * NUM_ORDERS + NUM_STANDALONE
        /\ Len(Rows("reviews.csv")) =
             Cardinality({j \in DOMAIN run.linked_from : run.linked_from[j] # 0})
             + Cardinality({j \in DOMAIN run.standalone : run.standalone[j]})

\* A finished run with fewer reviews than standalone iterations: no order was
\* selected and a standalone draw repeated a pair.
C4_Witness ==
    /\ run.pc = "done"
    /\ NUM_PRODUCTS >= MAX_ORDER_ITEMS
    /\ run.selected = <<>>
    /\ Len(Rows("reviews.csv")) < NUM_STANDALONE
    /\ Len(Rows("order_items.csv")) = NUM_ORDERS * MAX_ORDER_ITEMS

\* The output files written so far.
Written == DOMAIN run.files
AllFiles == {CSV_FILES[j][2] : j \in DOMAIN CSV_FILES}
Ended == run.pc \in {"done", "failed"}
Loaded == {t \in DOMAIN tables : tables[t] # <<>>}

\* C5 as claimed: a run that has ended has written all five files or none,
\* and with fewer than five files no table is loaded.
C5_AllOrNothing ==
    /\ Ended => (Written = {} \/ Written = AllFiles)
    /\ Written # AllFiles => Loaded = {}

\* C5, amended: the files written are always the first n of customers,
\* products, orders, order_items, reviews, with n = 5 exactly when the run has
\* finished; and once main has run, each table holds as many rows as its file
\* when the file exists and is empty otherwise, success_count being the number
\* of files that exist and hold at least one record.
C5_PrefixWrittenPartialImport ==
    /\ \E n \in 0..Len(CSV_FILES) : Written = {CSV_FILES[j][2] : j \in 1..n}
    /\ run.pc = "done" <=> Written = AllFiles
    /\ DOMAIN tables # {} =>
         /\ DOMAIN tables = TABLES
         /\ \A j \in DOMAIN CSV_FILES :
              Len(tables[CSV_FILES[j][1]]) =
                  IF CSV_FILES[j][2] \in Written THEN Len(run.files[CSV_FILES[j][2]]) ELSE 0
         /\ success_count = Cardinality({f \in Written : run.files[f] # <<>>})

\* A run that failed with some files written, and main run after it: the
\* tables of the written files are loaded, the others are empty.
C5_Witness ==
    /\ run.pc = "failed"
    /\ Written # {} /\ Written # AllFiles
    /\ DOMAIN tables # {}
    /\ Loaded # {} /\ Loaded # TABLES
    /\ success_count \in 1..4

\* C6: every line item has a quantity in 1..5, the order id of a generated
\* order and the product id of a generated product (in 1..M), and no product
\* appears on two line items of one order.
C6_LineItemsWellFormed ==
    /\ \A m \in DOMAIN run.order_items :
         LET it == run.order_items[m]
         IN  /\ it.quantity \in 1..5
             /\ \E j \in DOMAIN run.orders : run.orders[j].order_id = it.order_id
             /\ it.product_id \in 1..NUM_PRODUCTS
             /\ \E j \in DOMAIN run.products : run.products[j].product_id = it.product_id
    /\ \A m, n \in DOMAIN run.order_items :
         (m # n /\ run.order_items[m].order_id = run.order_items[n].order_id)
             => run.order_items[m].product_id # run.order_items[n].product_id

\* An order with two line items, of quantities 1 and 5.
C6_Witness ==
    \E m, n \in DOMAIN run.order_items :
        /\ m # n
        /\ run.order_items[m].order_id = run.order_items[n].order_id
        /\ run.order_items[m].quantity = 1
        /\ run.order_items[n].quantity = 5

\* The line items of the order generated last.
LastOrderItems == ItemsOf(run, Len(run.orders))

\* The part of C7 that does not depend on M: the order generated last has as
\* many line items as the drawn count capped at M.
LastOrderClamped ==
    run.orders # <<>> => Len(LastOrderItems) = min(run.num_items, NUM_PRODUCTS)

\* Only a failed file write ends the script early, and until it ends the
\* script has a step to take; a finished run has written all five files.
RunsToCompletion ==
    /\ run.pc = "failed" => run.error = "OSError"
    /\ ~Ended => ENABLED Generate
    /\ run.pc = "done" => Written = AllFiles

\* C7 as claimed: for every M the line-item count is the drawn count capped
\* at M and the run never aborts.
C7_ClampedForEveryM == LastOrderClamped /\ RunsToCompletion

\* C7, amended: the same for every M >= 1.
C7_ClampedForPositiveM ==
    LastOrderClamped /\ (NUM_PRODUCTS >= 1 => RunsToCompletion)

\* A finished run with fewer products than MAX_ORDER_ITEMS whose last order
\* drew more line items than there are products.
C7_Witness ==
    /\ run.pc = "done"
    /\ NUM_PRODUCTS >= 1
    /\ NUM_PRODUCTS < MAX_ORDER_ITEMS
    /\ run.num_items > NUM_PRODUCTS
    /\ Len(LastOrderItems) = NUM_PRODUCTS

\* The reviews generated from orders, by position in the review list.
Linked == {j \in DOMAIN run.reviews : run.linked_from[j] # 0}

\* C8: an order-linked review is dated on or after its order's date and at
\* most 30 days after it.
C8_LinkedReviewDateWindow ==
    \A j \in Linked :
        LET order_date == OrderOf(run, run.linked_from[j]).order_date
        IN  /\ run.reviews[j].review_date >= order_date
            /\ run.reviews[j].review_date <= order_date + 30

\* Two reviews of one order placed late in the window, one dated on the order
\* date and one 30 days after it.
C8_Witness ==
    \E j, k \in Linked :
        /\ run.linked_from[j] = run.linked_from[k]
        /\ OrderOf(run, run.linked_from[j]).order_date = end_date(run)
        /\ run.reviews[j].review_date = end_date(run)
        /\ run.reviews[k].review_date = end_date(run) + 30

\* C9: at every point of the run the line-item ids are 1, 2, ... in list
\* order and so are the review ids, across orders and across both phases.
C9_SequentialIds ==
    /\ \A m \in DOMAIN run.order_items : run.order_items[m].order_item_id = m
    /\ \A j \in DOMAIN run.reviews : run.reviews[j].review_id = j
    /\ run.order_item_id = Len(run.order_items) + 1
    /\ run.review_id = Len(run.reviews) + 1

\* An order-linked review, then a standalone draw skipped as a duplicate, then
\* a standalone review appended, after an order of two line items.
C9_Witness ==
    /\ Len(run.order_items) >= 2
    /\ run.standalone = <<FALSE, TRUE>>
    /\ Len(run.reviews) >= 2
    /\ run.linked_from[1] # 0
    /\ run.linked_from[Len(run.reviews)] = 0

\* The reviews generated from order o.
LinkedFrom(o) == {j \in Linked : run.linked_from[j] = o}

\* The orders selected for review.
SelectedOrders == {run.selected[j] : j \in DOMAIN run.selected}

\* C10: an order-linked review carries its order's customer and the product of
\* one of that order's line items; a selected order has 1 or 2 reviews, no
\* more than its line items, all of distinct products; an order not selected
\* has none.
C10_LinkedReviewsFollowOrder ==
    /\ \A j \in Linked :
         LET o == run.linked_from[j]
         IN  /\ \E m \in DOMAIN run.orders :
                  /\ run.orders[m].order_id = o
                  /\ run.orders[m].customer_id = run.reviews[j].customer_id
             /\ \E m \in DOMAIN run.order_items :
                  /\ run.order_items[m].order_id = o
                  /\ run.order_items[m].product_id = run.reviews[j].product_id
    /\ \A o \in 1..NUM_ORDERS :
         /\ o \in SelectedOrders => Cardinality(LinkedFrom(o)) \in 1..2
         /\ o \notin SelectedOrders => LinkedFrom(o) = {}
         /\ Cardinality(LinkedFrom(o)) <= Len(ItemsOf(run, o))
         /\ \A j, k \in LinkedFrom(o) :
              j # k => run.reviews[j].product_id # run.reviews[k].product_id

\* Two customers, and a review generated from an order of the second one.
C10_Witness ==
    \E j \in Linked :
        /\ run.reviews[j].customer_id = 2
        /\ OrderOf(run, run.linked_from[j]).customer_id = 2

\* The five output collections of a script state, in generation order.
Collections(s) == <<s.customers, s.products, s.orders, s.order_items, s.reviews>>

\* List a is the beginning of list b.
IsPrefix(a, b) == Len(a) <= Len(b) /\ SubSeq(b, 1, Len(a)) = a

\* The price of product product_id in a list of product records.
PriceIn(products, product_id) ==
    {products[j].price : j \in {k \in DOMAIN products : products[k].product_id = product_id}}

\* The product lists of the run: the one in memory and, once written, products.csv.
ProductOutputs ==
    {run.products} \cup
    (IF "products.csv" \in Written THEN {run.files["products.csv"]} ELSE {})

\* The line-item lists of the run: in memory and, once written, order_items.csv.
LineItemOutputs ==
    {run.order_items} \cup
    (IF "order_items.csv" \in Written THEN {run.files["order_items.csv"]} ELSE {})

\* Every line item carries the price of exactly the product it references.
PriceSnapshot ==
    \A items \in LineItemOutputs, products \in ProductOutputs :
        \A m \in DOMAIN items :
            PriceIn(products, items[m].product_id) = {items[m].price}

\* A step leaves every record already appended, and every file already
\* written, as it was.
AppendOnly ==
    /\ \A j \in 1..5 : IsPrefix(Collections(run)[j], Collections(run')[j])
    /\ \A f \in DOMAIN run.files :
         f \in DOMAIN run'.files /\ run'.files[f] = run.files[f]

\* C11: at every point of the run each line item's price is the price of the
\* product it references, in memory and in products.csv / order_items.csv as
\* written; and no step changes or removes a customer, product, order, line
\* item or review that has been appended, nor a file that has been written.
C11_PriceSnapshotAppendOnly == []PriceSnapshot /\ [][AppendOnly]_vars

\* A finished run with two line items of different products at different
\* prices, and at least one review.
C11_Witness ==
    /\ run.pc = "done"
    /\ run.reviews # <<>>
    /\ \E m, n \in DOMAIN run.files["order_items.csv"] :
         LET a == run.files["order_items.csv"][m]
             b == run.files["order_items.csv"][n]
         IN  /\ a.product_id # b.product_id
             /\ a.price # b.price
             /\ PriceIn(run.files["products.csv"], a.product_id) = {a.price}
             /\ PriceIn(run.files["products.csv"], b.product_id) = {b.price}

\* The rows of a table's CSV file as it stands; none when the file is missing.
FileRows(j) ==
    IF CSV_FILES[j][2] \in Written THEN run.files[CSV_FILES[j][2]] ELSE <<>>

\* Once main has run, all five tables exist and each holds one row per record
\* of its file, no more and no fewer.
TablesHoldFileRows ==
    main_runs >= 1 =>
        /\ DOMAIN tables = TABLES
        /\ \A j \in DOMAIN CSV_FILES :
             Len(tables[CSV_FILES[j][1]]) = Len(FileRows(j))

\* A further run of main leaves the tables and the count of imports as the
\* run before left them.
RerunOfMainChangesNothing ==
    (main_runs >= 1 /\ main_runs' = main_runs + 1) =>
        tables' = tables /\ success_count' = success_count

\* C12: after any number (1..MaxMainRuns) of successive runs of main over the
\* files of a generation run, each table holds as many rows as its CSV file
\* has records, not a multiple of it; a second or later run of main changes
\* no table.
C12_MainIdempotent == []TablesHoldFileRows /\ [][RerunOfMainChangesNothing]_vars

\* main run MaxMainRuns times over the five files of a finished generation
\* run: all five imports succeeded and every table holds its file's rows.
C12_Witness ==
    /\ run.pc = "done"
    /\ Written = AllFiles
    /\ main_runs = MaxMainRuns
    /\ success_count = Len(CSV_FILES)
    /\ \A j \in DOMAIN CSV_FILES :
         /\ tables[CSV_FILES[j][1]] # <<>>
         /\ Len(tables[CSV_FILES[j][1]]) = Len(run.files[CSV_FILES[j][2]])

====
